---- MODULE Spec2Model ----
(***************************************************************************)
(* Thanaweya Amma RAG: document chunking and hybrid retrieval.             *)
(*                                                                         *)
(* The module models                                                       *)
(*   - HybridRetriever (src/src/hybrid_retriever.py): the per-subject      *)
(*     lexical indices, bm25_search, reciprocal_rank_fusion and search;    *)
(*   - VectorStore (src/src/vector_store.py): the collection, add,         *)
(*     semantic_search, count and reset;                                   *)
(*   - DocumentProcessor.process_element_chunks, process_subject_pdfs,     *)
(*     DocumentStructureChunker._reconstruct_paragraphs and the cleaners   *)
(*     (src/src/data_processing.py);                                       *)
(*   - the ingestion script (src/ingest_data.py) and the chat session      *)
(*     with its ConversationMemory (src/main.py,                           *)
(*     src/src/conversation_memory.py, src/src/llm_client.py).             *)
(*                                                                         *)
(* A text is a sequence of words (what str.split() yields); a document is  *)
(* a record with a text and a metadata field, as the chunk records of the  *)
(* program are.  Scores are kept exact: a fused score is an integer in     *)
(* units of 1/(10 * RankProduct(k)), a BM25 score is in fixed point.       *)
(*                                                                         *)
(* Record constructors list their fields in the order in which the names   *)
(* first occur in this module, which is the order TLC keeps them in.       *)
(***************************************************************************)
EXTENDS Integers, Sequences, FiniteSets, TLC

VARIABLES
    bm25_indices,   \* HybridRetriever.bm25_indices: subject -> BM25 index
    corpus_docs,    \* HybridRetriever.corpus_docs: subject -> list of documents
    collection,     \* the Chroma collection of VectorStore: id -> stored record
    call,           \* the query or function call last made, with its arguments
    ret,            \* what that call returned
    pc,             \* where the threads, or the running script, stand
    locals,         \* the local variables of the threads or of the script
    data_dir,       \* config.DATA_DIR: subject -> the PDF files of its directory
    memory,         \* ConversationMemory.messages of the chat session
    session,        \* current_subject and current_mode of the chat session
    exit_status     \* <<>> while the process runs, <<status>> once it has exited

\* the state of the two command-line programs, ingest_data.py and main.py
appVars == <<data_dir, memory, session, exit_status>>

vars == <<bm25_indices, corpus_docs, collection, call, ret, pc, locals,
          data_dir, memory, session, exit_status>>

\* ------------------------------------------------------------------ bounds
\* longest candidate list, corpus or chunk list the model draws
MaxLen == 3
\* most documents in a list handed to build_bm25_index
MaxDocs == 3

\* ------------------------------------------------------- program constants
\* config.HYBRID_SEARCH_WEIGHTS, in tenths
W_BM25 == 4
W_SEMANTIC == 6
\* default of the parameter k of reciprocal_rank_fusion
RRF_K == 60

None == "None"

\* ret before the operation has returned, and after it returned v
Pending == [returned |-> FALSE]
Returned(v) == [returned |-> TRUE, value |-> v]
\* the call ended with the exception e
Raised(e) == [returned |-> TRUE, raised |-> e]

\* no call of build_bm25_index and none of bm25_search is under way
Idle == [builder |-> "idle", searcher |-> "idle"]
NoLocals == [builder |-> None, searcher |-> None]

Range(s) == {s[i] : i \in DOMAIN s}

Min(a, b) == IF a <= b THEN a ELSE b

SeqsUpTo(S, n) == UNION {[1..m -> S] : m \in 0..n}

\* the first m elements of s (s[:m] for m >= 0)
Take(s, m) == SubSeq(s, 1, Min(m, Len(s)))

\* ---------------------------------------------------------------- documents
Subjects == {"math", "physics"}

\* the words of the model's texts; "B" is an upper-case form of "b"
Words == {"a", "A", "b", "B", "c"}

Texts == {<<"a">>, <<"B", "c">>, <<"b">>}

Metadata(subject, filename, chunk_id) ==
    [subject |-> subject, filename |-> filename, chunk_id |-> chunk_id,
     source |-> <<"data", subject, filename>>]

Chunk(text, subject, filename, chunk_id) ==
    [text |-> text, metadata |-> Metadata(subject, filename, chunk_id)]

\* ------------------------------------------------------------------- state
\* client.get_or_create_collection(...) on a store without the collection:
\* an empty collection; recreated tells the collection made by
\* reset_collection from the one made by VectorStore.__init__
NewCollection(recreated) == [recreated |-> recreated, items |-> <<>>]

\* no data directory, and ThanaweayaRAGSystem.__init__: an empty memory, no
\* subject and no mode; the process runs
InitApp ==
    /\ data_dir = <<>>
    /\ memory = <<>>
    /\ session = [current_subject |-> None, current_mode |-> None]
    /\ exit_status = <<>>

Init ==
    /\ bm25_indices = <<>>
    /\ corpus_docs = <<>>
    /\ collection = NewCollection(FALSE)
    /\ call = [op |-> None]
    /\ ret = Pending
    /\ pc = Idle
    /\ locals = NoLocals
    /\ InitApp

\* ------------------------------------------------- reciprocal rank fusion
RECURSIVE RankProduct(_, _)
\* (k+1)(k+2)...(k+n): the common denominator of the terms 1/(k + rank)
RankProduct(k, n) == IF n = 0 THEN 1 ELSE (k + n) * RankProduct(k, n - 1)

\* the longest candidate list the fusion is given
MaxRank == IF MaxLen > MaxDocs THEN MaxLen ELSE MaxDocs

\* weight * (1 / (k + rank)), in units of 1/(10 * RankProduct(k, MaxRank))
RankTerm(weight, k, rank) == (weight * RankProduct(k, MaxRank)) \div (k + rank)

\* rrf_scores (a dict, which keeps insertion order) and doc_map
EmptyScoreMap == [keys |-> <<>>, scores |-> <<>>, doc_map |-> <<>>]

\* scores kept as a list of entries: a text seen again is entered again
AddScoreListed(st, t, term) ==
    [keys |-> Append(st.keys, t),
     scores |-> [u \in DOMAIN st.scores \cup {t} |->
                    IF u = t
                    THEN (IF t \in DOMAIN st.scores THEN st.scores[t] ELSE 0) + term
                    ELSE st.scores[u]],
     doc_map |-> st.doc_map]

\* rrf_scores[doc_text] += term, on a defaultdict(float)
AddScore(st, t, term) ==
    [keys |-> IF t \in DOMAIN st.scores THEN st.keys ELSE Append(st.keys, t),
     scores |-> [u \in DOMAIN st.scores \cup {t} |->
                    IF u = t
                    THEN (IF t \in DOMAIN st.scores THEN st.scores[t] ELSE 0) + term
                    ELSE st.scores[u]],
     doc_map |-> st.doc_map]

\* doc_map[doc_text] = doc
SetDoc(st, t, doc) ==
    [st EXCEPT !.doc_map = [u \in DOMAIN st.doc_map \cup {t} |->
                               IF u = t THEN doc ELSE st.doc_map[u]]]

\* body of the loop over bm25_results: the document is stored unconditionally
AddBm25Result(st, rank, doc, k) ==
    SetDoc(AddScore(st, doc.text, RankTerm(W_BM25, k, rank)), doc.text, doc)

\* body of the loop over semantic_results: the document is stored if new
AddSemanticResult(st, rank, doc, k) ==
    LET st1 == AddScore(st, doc.text, RankTerm(W_SEMANTIC, k, rank))
    IN IF doc.text \in DOMAIN st.doc_map THEN st1 ELSE SetDoc(st1, doc.text, doc)

RECURSIVE Bm25Loop(_, _, _, _)
Bm25Loop(st, results, n, k) ==
    IF n = 0 THEN st
    ELSE AddBm25Result(Bm25Loop(st, results, n - 1, k), n, results[n], k)

RECURSIVE SemanticLoop(_, _, _, _)
SemanticLoop(st, results, n, k) ==
    IF n = 0 THEN st
    ELSE AddSemanticResult(SemanticLoop(st, results, n - 1, k), n, results[n], k)

RECURSIVE InsertDescLast(_, _, _)
\* t goes after every key whose score is at least its own
InsertDescLast(sorted, t, scores) ==
    IF sorted = <<>> THEN <<t>>
    ELSE IF scores[Head(sorted)] >= scores[t]
         THEN <<Head(sorted)>> \o InsertDescLast(Tail(sorted), t, scores)
         ELSE <<t>> \o sorted

RECURSIVE InsertDescFirst(_, _, _)
\* t goes before the keys of equal score: the order of an unstable sort
InsertDescFirst(sorted, t, scores) ==
    IF sorted = <<>> THEN <<t>>
    ELSE IF scores[Head(sorted)] > scores[t]
         THEN <<Head(sorted)>> \o InsertDescFirst(Tail(sorted), t, scores)
         ELSE <<t>> \o sorted

RECURSIVE SortedUnstable(_, _)
SortedUnstable(keys, scores) ==
    IF keys = <<>> THEN <<>>
    ELSE InsertDescFirst(SortedUnstable(SubSeq(keys, 1, Len(keys) - 1), scores),
                         keys[Len(keys)], scores)

RECURSIVE SortedByScore(_, _)
\* sorted(rrf_scores.items(), key=score, reverse=True): stable, so keys of
\* equal score keep their insertion order
SortedByScore(keys, scores) ==
    IF keys = <<>> THEN <<>>
    ELSE InsertDescLast(SortedByScore(SubSeq(keys, 1, Len(keys) - 1), scores),
                        keys[Len(keys)], scores)

\* doc = doc_map[doc_text].copy(); doc["hybrid_score"] = score
WithHybridScore(doc, score) ==
    [f \in DOMAIN doc \cup {"hybrid_score"} |->
        IF f = "hybrid_score" THEN score ELSE doc[f]]

reciprocal_rank_fusion(bm25_results, semantic_results, k) ==
    LET st1 == Bm25Loop(EmptyScoreMap, bm25_results, Len(bm25_results), k)
        st2 == SemanticLoop(st1, semantic_results, Len(semantic_results), k)
        sorted_docs == SortedByScore(st2.keys, st2.scores)
    IN [i \in 1..Len(sorted_docs) |->
           WithHybridScore(st2.doc_map[sorted_docs[i]], st2.scores[sorted_docs[i]])]

\* str.lower() on the words of the model
Lower(w) ==
    CASE w = "Chapter" -> "chapter"
      [] w = "Section" -> "section"
      [] w = "Lesson" -> "lesson"
      [] w = "B" -> "b"
      [] w = "A" -> "a"
      [] OTHER -> w

\* ------------------------------------------------------ the lexical index
\* text.lower().split() on a text given as its words
Tokenize(text) == [i \in DOMAIN text |-> Lower(text[i])]

RECURSIVE SumOver(_, _)
\* the sum of f[x] over the x of S
SumOver(f, S) ==
    IF S = {} THEN 0
    ELSE LET x == CHOOSE y \in S : TRUE IN f[x] + SumOver(f, S \ {x})

RECURSIVE SumSeq(_, _)
\* s[1] + ... + s[n]
SumSeq(s, n) == IF n = 0 THEN 0 ELSE SumSeq(s, n - 1) + s[n]

\* LnOdd[m + 1] = 10^4 * ln(2m + 1), rounded: ln(n + 0.5) = LnOdd[n + 1] - ln 2
LnOdd == <<0, 10986, 16094, 19459, 21972, 23979, 25649>>

\* rank_bm25.BM25Okapi(tokenized_corpus) with its defaults k1 = 1.5, b = 0.75,
\* epsilon = 0.25.  idf is kept in units of 1/(4 * |vocabulary| * 10^4):
\* a word in fewer than half of the documents has idf ln(N - n + 0.5) -
\* ln(n + 0.5); a word with a negative idf gets epsilon * average idf.
BM25Okapi(tokenized_corpus) ==
    LET N == Len(tokenized_corpus)
        vocab == UNION {Range(tokenized_corpus[i]) : i \in 1..N}
        nd == [w \in vocab |->
                  Cardinality({i \in 1..N : w \in Range(tokenized_corpus[i])})]
        raw == [w \in vocab |-> LnOdd[N - nd[w] + 1] - LnOdd[nd[w] + 1]]
        idf_sum == SumOver(raw, vocab)
    IN [corpus_size |-> N,
        doc_len |-> [i \in 1..N |-> Len(tokenized_corpus[i])],
        total_len |-> SumSeq([i \in 1..N |-> Len(tokenized_corpus[i])], N),
        doc_freqs |-> [i \in 1..N |->
                          [w \in Range(tokenized_corpus[i]) |->
                              Cardinality({j \in DOMAIN tokenized_corpus[i] :
                                              tokenized_corpus[i][j] = w})]],
        idf |-> [w \in vocab |->
                    IF raw[w] < 0 THEN idf_sum ELSE raw[w] * 4 * Cardinality(vocab)]]

\* the term of query word q in the score of document i:
\* idf * tf * (k1 + 1) / (tf + k1 * (1 - b + b * doc_len / avgdl)), with
\* avgdl = total_len / corpus_size, numerator and denominator times 8 * total_len
QueryTerm(index, q, i) ==
    IF q \in DOMAIN index.idf /\ q \in DOMAIN index.doc_freqs[i]
    THEN LET tf == index.doc_freqs[i][q]
         IN (index.idf[q] * 20 * tf * index.total_len)
            \div (8 * tf * index.total_len + 3 * index.total_len
                  + 9 * index.doc_len[i] * index.corpus_size)
    ELSE 0

\* BM25Okapi.get_scores(tokenized_query): one score per document of the corpus
get_scores(index, tokenized_query) ==
    [i \in 1..index.corpus_size |->
        SumSeq([j \in DOMAIN tokenized_query |-> QueryTerm(index, tokenized_query[j], i)],
               Len(tokenized_query))]

RECURSIVE InsertAscLast(_, _, _)
\* index i goes after every index whose score is at most its own
InsertAscLast(sorted, i, scores) ==
    IF sorted = <<>> THEN <<i>>
    ELSE IF scores[Head(sorted)] <= scores[i]
         THEN <<Head(sorted)>> \o InsertAscLast(Tail(sorted), i, scores)
         ELSE <<i>> \o sorted

RECURSIVE Argsort(_, _)
\* np.argsort(scores) on the first n scores: ascending, equal scores in
\* index order
Argsort(scores, n) ==
    IF n = 0 THEN <<>> ELSE InsertAscLast(Argsort(scores, n - 1), n, scores)

Reverse(s) == [i \in 1..Len(s) |-> s[Len(s) + 1 - i]]

\* np.argsort(bm25_scores)[::-1][:top_k]
TopIndicesAscending(scores, top_k) == Take(Argsort(scores, Len(scores)), top_k)

TopIndices(scores, top_k) == Take(Reverse(Argsort(scores, Len(scores))), top_k)

\* doc = corpus_docs[subject][idx].copy(); doc["bm25_score"] = float(score)
WithBm25Score(doc, score) ==
    [f \in DOMAIN doc \cup {"bm25_score"} |->
        IF f = "bm25_score" THEN score ELSE doc[f]]

RECURSIVE FormatAll(_, _, _, _)
\* the results loop without the test on the score
FormatAll(top_indices, n, scores, docs) ==
    IF n = 0 THEN <<>>
    ELSE Append(FormatAll(top_indices, n - 1, scores, docs),
                WithBm25Score(docs[top_indices[n]], scores[top_indices[n]]))

RECURSIVE FormatResults(_, _, _, _)
\* the loop over top_indices, after its first n iterations
FormatResults(top_indices, n, scores, docs) ==
    IF n = 0 THEN <<>>
    ELSE LET results == FormatResults(top_indices, n - 1, scores, docs)
             idx == top_indices[n]
         IN IF scores[idx] > 0
            THEN Append(results, WithBm25Score(docs[idx], scores[idx]))
            ELSE results

\* HybridRetriever.bm25_search on a retriever with the given indices and corpora
bm25_search(indices, corpora, query, subject, top_k) ==
    IF subject \notin DOMAIN indices THEN <<>>
    ELSE LET bm25_scores == get_scores(indices[subject], Tokenize(query))
             top_indices == TopIndices(bm25_scores, top_k)
         IN FormatResults(top_indices, Len(top_indices), bm25_scores, corpora[subject])

\* the texts of the documents handed to build_bm25_index
CorpusTexts == {<<"a">>, <<"B", "c">>}

\* The chunk lists of one source document of a subject: up to n chunks, the
\* shorter texts first (the position of a document in the list matters to a
\* query only among documents of equal score).
ChunkLists(subject, n) ==
    {[i \in 1..Len(t) |-> Chunk(t[i], subject, "book1.pdf", i - 1)] :
        t \in {u \in SeqsUpTo(CorpusTexts, n) :
                  \A i, j \in DOMAIN u : i < j => Len(u[i]) <= Len(u[j])}}

Queries == {<<"a">>, <<"A", "b">>}

\* a dict that holds value under key alone
OnlyItem(dict, key, value) == [k \in {key} |-> value]

\* dict[key] = value
SetItem(dict, key, value) ==
    [k \in DOMAIN dict \cup {key} |-> IF k = key THEN value ELSE dict[k]]

\* the values of top_k the queries are made with
TopKs == {1, 2}

\* The behaviours modelled are: any sequence of builds, ingestions and
\* resets, then one query.  call and ret hold the query and its result; the
\* operations that return nothing leave them alone.

\* HybridRetriever.build_bm25_index(subject, documents)
BuildBm25Index(subject, documents) ==
    /\ ~ret.returned
    /\ IF documents = <<>>
       THEN UNCHANGED <<bm25_indices, corpus_docs>>
       ELSE /\ bm25_indices' =
                   SetItem(bm25_indices, subject,
                           BM25Okapi([i \in DOMAIN documents |->
                                         Tokenize(documents[i].text)]))
            /\ corpus_docs' = SetItem(corpus_docs, subject, documents)
    /\ UNCHANGED <<collection, call, ret, pc, locals>>
    /\ UNCHANGED appVars

\* HybridRetriever.bm25_search(query, subject, top_k)
Bm25Search(query, subject, top_k) ==
    /\ ~ret.returned
    /\ call' = [subject |-> subject, op |-> "bm25_search", top_k |-> top_k,
                query |-> query]
    /\ ret' = Returned(bm25_search(bm25_indices, corpus_docs, query, subject, top_k))
    /\ UNCHANGED <<bm25_indices, corpus_docs, collection, pc, locals>>
    /\ UNCHANGED appVars

NextLexical ==
    \/ \E s \in Subjects : \E docs \in ChunkLists(s, MaxDocs) : BuildBm25Index(s, docs)
    \/ \E q \in Queries, s \in Subjects, k \in TopKs \cup {0} : Bm25Search(q, s, k)

SpecLexical == Init /\ [][NextLexical]_vars

\* --------------------------------------- fusion as a function of its inputs
\* the candidate at position i of a list: every occurrence is a chunk record
\* of its own
Candidates(texts, filename) ==
    [i \in 1..Len(texts) |-> Chunk(texts[i], "math", filename, i - 1)]

\* the values of k the fusion is called with: the default, and a small one
\* under which a lexical rank and a semantic rank can weigh the same
FusionKs == {RRF_K, 1}

FusionCall(lex, sem, k) ==
    [op |-> "reciprocal_rank_fusion",
     k |-> k,
     bm25_results |-> Candidates(lex, "lex.pdf"),
     semantic_results |-> Candidates(sem, "sem.pdf")]

\* the retriever as constructed, with the arguments of one call drawn
InitFusion ==
    /\ bm25_indices = <<>>
    /\ corpus_docs = <<>>
    /\ collection = NewCollection(FALSE)
    /\ call \in {FusionCall(lex, sem, k) :
                    lex \in SeqsUpTo(Texts, MaxLen), sem \in SeqsUpTo(Texts, MaxLen),
                    k \in FusionKs}
    /\ ret = Pending
    /\ pc = Idle
    /\ locals = NoLocals
    /\ InitApp

Fuse ==
    /\ call.op = "reciprocal_rank_fusion"
    /\ ~ret.returned
    /\ ret' = Returned(reciprocal_rank_fusion(call.bm25_results,
                                              call.semantic_results, call.k))
    /\ UNCHANGED <<bm25_indices, corpus_docs, collection, call, pc, locals>>
    /\ UNCHANGED appVars

NextFusion == Fuse

SpecFusion == InitFusion /\ [][NextFusion]_vars

\* ------------------------------------------------------- claims on fusion
TextsOf(docs) == [i \in DOMAIN docs |-> docs[i].text]

\* the 1-based positions of text t in a candidate list
PositionsOf(t, docs) == {i \in DOMAIN docs : docs[i].text = t}

\* the term a list contributes at rank r; rank 0 stands for "absent"
ClaimedTerm(weight, k, r) == IF r = 0 THEN 0 ELSE RankTerm(weight, k, r)

\* the ranks the claim allows for t in a list: a position of t, or absent
ClaimedRanks(t, docs) == IF PositionsOf(t, docs) = {} THEN {0} ELSE PositionsOf(t, docs)

FusionReturned == call.op = "reciprocal_rank_fusion" /\ ret.returned

\* C1: every document returned by reciprocal_rank_fusion (k = 60) has
\* hybrid_score = 0.4/(60 + r_l) + 0.6/(60 + r_s), r_l and r_s being its
\* position in the lexical and in the semantic list, a list it is absent
\* from contributing 0.
C1_FusedScoreFormula ==
    (FusionReturned /\ call.k = RRF_K) =>
        \A i \in DOMAIN ret.value :
            \E rl \in ClaimedRanks(ret.value[i].text, call.bm25_results),
               rs \in ClaimedRanks(ret.value[i].text, call.semantic_results) :
                ret.value[i].hybrid_score =
                    ClaimedTerm(W_BM25, call.k, rl) + ClaimedTerm(W_SEMANTIC, call.k, rs)

\* position at which text t is first seen when the lexical list is scanned
\* and then the semantic list
FirstSeen(t, lex, sem) ==
    LET all == TextsOf(lex) \o TextsOf(sem)
    IN CHOOSE i \in DOMAIN all :
           all[i] = t /\ \A j \in DOMAIN all : all[j] = t => i <= j

\* C2: the list returned by reciprocal_rank_fusion is sorted by fused score,
\* non-increasing, and documents of equal fused score are in first-seen
\* order (lexical list, then semantic list).
C2_SortedTiesFirstSeen ==
    FusionReturned =>
        \A i, j \in DOMAIN ret.value :
            i < j =>
                /\ ret.value[i].hybrid_score >= ret.value[j].hybrid_score
                /\ ret.value[i].hybrid_score = ret.value[j].hybrid_score =>
                       FirstSeen(ret.value[i].text, call.bm25_results, call.semantic_results)
                       < FirstSeen(ret.value[j].text, call.bm25_results, call.semantic_results)

\* a fusion returned three documents, two of them with the same fused score
\* and one with a higher one
C2_Witness ==
    /\ FusionReturned
    /\ Len(ret.value) = 3
    /\ \E i, j \in DOMAIN ret.value :
           i < j /\ ret.value[i].hybrid_score = ret.value[j].hybrid_score
    /\ \E i, j \in DOMAIN ret.value :
           ret.value[i].hybrid_score > ret.value[j].hybrid_score

\* --------------------------------------------- claims on the lexical index
LexicalReturned == call.op = "bm25_search" /\ ret.returned

\* the documents of the subject's corpus whose score for the query is positive
PositiveDocs(query, subject) ==
    {i \in DOMAIN corpus_docs[subject] :
        get_scores(bm25_indices[subject], Tokenize(query))[i] > 0}

\* result is made of the corpus documents picked by pick, each with its score
MadeOf(result, pick, query, subject) ==
    \A j \in DOMAIN result :
        result[j] = WithBm25Score(corpus_docs[subject][pick[j]],
                                  get_scores(bm25_indices[subject], Tokenize(query))[pick[j]])

\* C5: bm25_search(query, subject, k) on a built subject returns at most k
\* documents, each with a score above zero, in non-increasing score order,
\* and they are the highest-scoring positive-score documents of the corpus.
C5_TopKPositive ==
    (LexicalReturned /\ call.subject \in DOMAIN bm25_indices) =>
        LET result == ret.value
            scores == get_scores(bm25_indices[call.subject], Tokenize(call.query))
            positive == PositiveDocs(call.query, call.subject)
        IN /\ Len(result) <= call.top_k
           /\ Len(result) = Min(call.top_k, Cardinality(positive))
           /\ \A j \in DOMAIN result : result[j].bm25_score > 0
           /\ \A i, j \in DOMAIN result :
                  i < j => result[i].bm25_score >= result[j].bm25_score
           /\ \E pick \in [DOMAIN result -> positive] :
                  /\ \A i, j \in DOMAIN result : i # j => pick[i] # pick[j]
                  /\ MadeOf(result, pick, call.query, call.subject)
                  /\ \A i \in positive \ Range(pick) :
                         \A j \in DOMAIN result : scores[i] <= result[j].bm25_score

\* a query returned two documents of different scores, and top_k cut off a
\* third document of positive score
C5_Witness ==
    /\ LexicalReturned
    /\ call.subject \in DOMAIN bm25_indices
    /\ Len(ret.value) = 2
    /\ ret.value[1].bm25_score > ret.value[2].bm25_score
    /\ Cardinality(PositiveDocs(call.query, call.subject)) > call.top_k

\* the index and the corpus of subject o are the same in both states
SamePartition(o, indices1, corpora1, indices2, corpora2) ==
    /\ o \in DOMAIN indices1 <=> o \in DOMAIN indices2
    /\ o \in DOMAIN corpora1 <=> o \in DOMAIN corpora2
    /\ o \in DOMAIN indices1 => indices1[o] = indices2[o]
    /\ o \in DOMAIN corpora1 => corpora1[o] = corpora2[o]

\* the index or the corpus of subject s differs between the two states
PartitionChanged(s) ==
    ~SamePartition(s, bm25_indices, corpus_docs, bm25_indices', corpus_docs')

\* C6: build_bm25_index(S, docs) leaves the index and the corpus of every
\* other subject unchanged, and a lexical query on another subject returns
\* the same result after the build as before it.
C6_BuildLeavesOthers ==
    [][\A s \in Subjects :
          PartitionChanged(s) =>
              \A o \in Subjects \ {s} :
                  /\ SamePartition(o, bm25_indices, corpus_docs, bm25_indices', corpus_docs')
                  /\ \A q \in Queries, k \in TopKs :
                         bm25_search(bm25_indices', corpus_docs', q, o, k)
                         = bm25_search(bm25_indices, corpus_docs, q, o, k)]_vars

\* both subjects have been built, one of them with an index that answers a
\* query with documents
C6_Witness ==
    /\ DOMAIN bm25_indices = Subjects
    /\ \E o \in Subjects, q \in Queries :
           bm25_search(bm25_indices, corpus_docs, q, o, 2) # <<>>

\* ------------------------------------------------------------ vector store
\* f"{subject}_{filename}_{chunk_id}"
DocId(doc) == <<doc.metadata.subject, doc.metadata.filename, doc.metadata.chunk_id>>

\* a collection that stores a record of a held id once more, under a second
\* entry
CollectionAddDuplicating(items, batch) ==
    LET key(i) == IF DocId(batch[i]) \in DOMAIN items
                  THEN DocId(batch[i]) \o <<"again">>
                  ELSE DocId(batch[i])
        pick(id) == CHOOSE i \in DOMAIN batch : key(i) = id
    IN  [id \in DOMAIN items \cup {key(i) : i \in DOMAIN batch} |->
            IF id \in DOMAIN items
            THEN items[id]
            ELSE [metadata |-> batch[pick(id)].metadata,
                  document |-> batch[pick(id)].text]]

\* collection.add(ids, embeddings, documents, metadatas): the records whose
\* id the collection does not hold yet are stored, the others are left as
\* they are
CollectionAdd(items, batch) ==
    LET fresh == {i \in DOMAIN batch : DocId(batch[i]) \notin DOMAIN items}
        pick(id) == CHOOSE i \in fresh : DocId(batch[i]) = id
    IN  [id \in DOMAIN items \cup {DocId(batch[i]) : i \in fresh} |->
            IF id \in DOMAIN items
            THEN items[id]
            ELSE [metadata |-> batch[pick(id)].metadata,
                  document |-> batch[pick(id)].text]]

\* batch_size of add_documents
BATCH_SIZE == 100

RECURSIVE AddBatches(_, _, _)
\* the loop of add_documents over range(0, len(texts), batch_size)
AddBatches(items, documents, i) ==
    IF i > Len(documents)
    THEN items
    ELSE AddBatches(CollectionAdd(items,
                                  SubSeq(documents, i,
                                         Min(i + BATCH_SIZE - 1, Len(documents)))),
                    documents, i + BATCH_SIZE)

\* collection.count()
CollectionCount(coll) == Cardinality(DOMAIN coll.items)

\* the ids of the records that match where={"subject": subject}
Matching(coll, subject) ==
    {id \in DOMAIN coll.items : coll.items[id].metadata.subject = subject}

\* the sequences without repetition of length n over the set S
RECURSIVE Arrangements(_, _)
Arrangements(S, n) ==
    IF n = 0
    THEN {<<>>}
    ELSE UNION {{<<x>> \o r : r \in Arrangements(S \ {x}, n - 1)} : x \in S}

\* VectorStore.semantic_search(query, subject, top_k): the top_k records of
\* the subject that are nearest to the query, nearest first.  The distances
\* come from the embedding model: every order of the records is possible,
\* distance is the place in that order, and score is the fraction
\* 1 / (1 + distance) as <<numerator, denominator>>.
SemanticResults(coll, subject, top_k) ==
    LET ids == Matching(coll, subject)
        n == Min(top_k, Cardinality(ids))
    IN  {[i \in 1..n |-> [text |-> coll.items[order[i]].document,
                          metadata |-> coll.items[order[i]].metadata,
                          score |-> <<1, 1 + i>>,
                          distance |-> i]] :
            order \in Arrangements(ids, n)}

\* VectorStore.add_documents(documents)
AddDocuments(documents) ==
    /\ ~ret.returned
    /\ IF documents = <<>>
       THEN UNCHANGED collection
       ELSE collection' = [collection EXCEPT !.items = AddBatches(@, documents, 1)]
    /\ UNCHANGED <<bm25_indices, corpus_docs, call, ret, pc, locals>>
    /\ UNCHANGED appVars

\* VectorStore.reset_collection()
ResetCollection ==
    /\ ~ret.returned
    /\ collection' = NewCollection(TRUE)
    /\ UNCHANGED <<bm25_indices, corpus_docs, call, ret, pc, locals>>
    /\ UNCHANGED appVars

\* ------------------------------------------------------------ hybrid search
\* the mutation of RetrieveK: as many candidates as results
RetrieveKSame(top_k) == top_k

\* retrieve_k = top_k * 2
RetrieveK(top_k) == top_k * 2

\* HybridRetriever.search(query, subject, top_k), semantic_results being
\* what the vector store answers to the request the search makes
Search(query, subject, top_k, semantic_results) ==
    LET retrieve_k == RetrieveK(top_k)
        bm25_results == bm25_search(bm25_indices, corpus_docs, query, subject,
                                    retrieve_k)
        hybrid_results == reciprocal_rank_fusion(bm25_results, semantic_results,
                                                 RRF_K)
    IN  /\ ~ret.returned
        /\ semantic_results \in SemanticResults(collection, subject, retrieve_k)
        /\ call' = [subject |-> subject, op |-> "search",
                    bm25_results |-> bm25_results,
                    semantic_results |-> semantic_results,
                    top_k |-> top_k,
                    query |-> query,
                    bm25_top_k |-> retrieve_k,
                    semantic_top_k |-> retrieve_k]
        /\ ret' = Returned(Take(hybrid_results, top_k))
        /\ UNCHANGED <<bm25_indices, corpus_docs, collection, pc, locals>>
        /\ UNCHANGED appVars

\* the chunk lists the partitions are built and filled from: the second
\* partition is there to be left alone, and holds one document when it
\* holds any
RetrieverLists(subject) ==
    IF subject = "math"
    THEN ChunkLists(subject, MaxDocs)
    ELSE {<<>>, <<Chunk(<<"a">>, subject, "book1.pdf", 0)>>}

\* ingest_data.py stores the chunks it has processed in one call: a
\* partition is filled when it is empty, and filling a partition that holds
\* records is left out
NextRetriever ==
    \/ \E s \in Subjects : \E docs \in RetrieverLists(s) : BuildBm25Index(s, docs)
    \/ \E s \in Subjects : \E docs \in RetrieverLists(s) :
          Matching(collection, s) = {} /\ AddDocuments(docs)
    \/ ResetCollection
    \/ \E q \in Queries, s \in Subjects, k \in TopKs :
          \E sem \in SemanticResults(collection, s, RetrieveK(k)) : Search(q, s, k, sem)

SpecRetriever == Init /\ [][NextRetriever]_vars

\* ------------------------------------------------- claims on hybrid search
\* a hybrid search has returned
SearchReturned == call.op = "search" /\ ret.returned

RECURSIVE DedupByText(_, _)
\* the documents of docs whose text was not seen before, in order
DedupByText(docs, seen) ==
    IF docs = <<>>
    THEN <<>>
    ELSE IF Head(docs).text \in seen
         THEN DedupByText(Tail(docs), seen)
         ELSE <<Head(docs)>> \o DedupByText(Tail(docs), seen \cup {Head(docs).text})

\* C7: a hybrid search on a subject with no built lexical index gets an
\* empty lexical candidate list and returns the semantic candidates in their
\* semantic rank order, deduplicated by text and truncated to top_k.
C7_SemanticOnly ==
    (SearchReturned /\ call.subject \notin DOMAIN bm25_indices) =>
        LET expected == Take(DedupByText(call.semantic_results, {}), call.top_k)
        IN  /\ call.bm25_results = <<>>
            /\ Len(ret.value) = Len(expected)
            /\ \A i \in DOMAIN expected :
                  /\ ret.value[i].text = expected[i].text
                  /\ ret.value[i].metadata = expected[i].metadata

\* C8: search(query, subject, top_k) asks the lexical index and the vector
\* store for 2 * top_k candidates of the same subject each, and returns the
\* first min(top_k, n) entries of the fusion of the two lists, n being the
\* number of fused documents.
C8_CandidatesAndTruncation ==
    SearchReturned =>
        LET k == call.top_k
            fused == reciprocal_rank_fusion(call.bm25_results,
                                            call.semantic_results, RRF_K)
        IN  /\ call.bm25_top_k = 2 * k
            /\ call.semantic_top_k = 2 * k
            /\ call.bm25_results =
                   bm25_search(bm25_indices, corpus_docs, call.query,
                               call.subject, 2 * k)
            /\ call.semantic_results \in
                   SemanticResults(collection, call.subject, 2 * k)
            /\ Len(ret.value) = Min(k, Len(fused))
            /\ \A i \in DOMAIN ret.value : ret.value[i] = fused[i]

\* a search with top_k = 1 got two candidates from each source, for two
\* fused documents, and returned one
C8_Witness ==
    /\ SearchReturned
    /\ call.top_k = 1
    /\ Len(call.bm25_results) = 2
    /\ Len(call.semantic_results) = 2
    /\ Len(reciprocal_rank_fusion(call.bm25_results, call.semantic_results,
                                  RRF_K)) = 2
    /\ Len(ret.value) = 1

\* C9: after a reset, whatever was built and ingested before it, a query
\* returns an empty result set and the count is zero.
C9_EmptyAfterReset ==
    (SearchReturned /\ collection.recreated /\ DOMAIN collection.items = {}) =>
        /\ CollectionCount(collection) = 0
        /\ ret.value = <<>>

\* ------------------------------------ build_bm25_index against bm25_search
\* One thread runs build_bm25_index and another bm25_search on the same
\* retriever.  Neither method takes a lock or a snapshot: each step below is
\* one read or one write of self.bm25_indices or self.corpus_docs, and the
\* steps of the two threads interleave freely.

\* build_bm25_index, up to the tokenized corpus
BuildBegin(subject, documents) ==
    /\ pc.builder = "idle"
    /\ IF documents = <<>>
       THEN UNCHANGED <<pc, locals>>
       ELSE /\ pc' = [pc EXCEPT !.builder = "publish_index"]
            /\ locals' = [locals EXCEPT !.builder =
                             [subject |-> subject,
                              tokenized_corpus |->
                                  [i \in DOMAIN documents |->
                                      Tokenize(documents[i].text)],
                              documents |-> documents]]
    /\ UNCHANGED <<bm25_indices, corpus_docs, collection, call, ret>>
    /\ UNCHANGED appVars

\* self.bm25_indices[subject] = BM25Okapi(tokenized_corpus)
BuildPublishIndex ==
    /\ pc.builder = "publish_index"
    /\ bm25_indices' = SetItem(bm25_indices, locals.builder.subject,
                               BM25Okapi(locals.builder.tokenized_corpus))
    /\ pc' = [pc EXCEPT !.builder = "publish_corpus"]
    /\ UNCHANGED <<corpus_docs, collection, call, ret, locals>>
    /\ UNCHANGED appVars

\* self.corpus_docs[subject] = documents
BuildPublishCorpus ==
    /\ pc.builder = "publish_corpus"
    /\ corpus_docs' = SetItem(corpus_docs, locals.builder.subject,
                              locals.builder.documents)
    /\ pc' = [pc EXCEPT !.builder = "idle"]
    /\ locals' = [locals EXCEPT !.builder = None]
    /\ UNCHANGED <<bm25_indices, collection, call, ret>>
    /\ UNCHANGED appVars

\* bm25_search, up to the test subject not in self.bm25_indices
SearchBegin(query, subject, top_k) ==
    /\ pc.searcher = "idle"
    /\ call' = [subject |-> subject, op |-> "bm25_search", top_k |-> top_k,
                query |-> query]
    /\ IF subject \notin DOMAIN bm25_indices
       THEN /\ ret' = Returned(<<>>)
            /\ UNCHANGED <<pc, locals>>
       ELSE /\ ret' = Pending
            /\ pc' = [pc EXCEPT !.searcher = "get_scores"]
            /\ locals' = [locals EXCEPT !.searcher =
                             [tokenized_query |-> Tokenize(query)]]
    /\ UNCHANGED <<bm25_indices, corpus_docs, collection>>
    /\ UNCHANGED appVars

\* bm25_scores = self.bm25_indices[subject].get_scores(tokenized_query) and
\* top_indices; index is the index object the scores were read from
SearchGetScores ==
    /\ pc.searcher = "get_scores"
    /\ LET index == bm25_indices[call.subject]
           bm25_scores == get_scores(index, locals.searcher.tokenized_query)
       IN  locals' = [locals EXCEPT !.searcher =
                         [i |-> 1,
                          results |-> <<>>,
                          index |-> index,
                          top_indices |-> TopIndices(bm25_scores, call.top_k),
                          corpora |-> <<>>,
                          bm25_scores |-> bm25_scores]]
    /\ pc' = [pc EXCEPT !.searcher = "format"]
    /\ UNCHANGED <<bm25_indices, corpus_docs, collection, call, ret>>
    /\ UNCHANGED appVars

\* one turn of the loop over top_indices; corpora lists the values of
\* self.corpus_docs[subject] the loop has read
SearchFormat ==
    /\ pc.searcher = "format"
    /\ locals.searcher.i <= Len(locals.searcher.top_indices)
    /\ LET l == locals.searcher
           idx == l.top_indices[l.i]
       IN  IF l.bm25_scores[idx] > 0
           THEN IF call.subject \notin DOMAIN corpus_docs
                THEN /\ ret' = Raised("KeyError")
                     /\ pc' = [pc EXCEPT !.searcher = "idle"]
                     /\ locals' = [locals EXCEPT !.searcher = None]
                ELSE IF idx > Len(corpus_docs[call.subject])
                THEN /\ ret' = Raised("IndexError")
                     /\ pc' = [pc EXCEPT !.searcher = "idle"]
                     /\ locals' = [locals EXCEPT !.searcher = None]
                ELSE /\ locals' = [locals EXCEPT !.searcher =
                                      [l EXCEPT
                                          !.i = @ + 1,
                                          !.results = Append(@,
                                              WithBm25Score(corpus_docs[call.subject][idx],
                                                            l.bm25_scores[idx])),
                                          !.corpora = Append(@, corpus_docs[call.subject])]]
                     /\ UNCHANGED <<pc, ret>>
           ELSE /\ locals' = [locals EXCEPT !.searcher = [l EXCEPT !.i = @ + 1]]
                /\ UNCHANGED <<pc, ret>>
    /\ UNCHANGED <<bm25_indices, corpus_docs, collection, call>>
    /\ UNCHANGED appVars

\* return results
SearchReturn ==
    /\ pc.searcher = "format"
    /\ locals.searcher.i > Len(locals.searcher.top_indices)
    /\ ret' = Returned(locals.searcher.results)
    /\ pc' = [pc EXCEPT !.searcher = "idle"]
    /\ locals' = [locals EXCEPT !.searcher = None]
    /\ UNCHANGED <<bm25_indices, corpus_docs, collection, call>>
    /\ UNCHANGED appVars

\* the subject the two threads work on
ConcurrentSubjects == {"math"}

NextConcurrent ==
    \/ \E s \in ConcurrentSubjects : \E docs \in ChunkLists(s, MaxDocs) : BuildBegin(s, docs)
    \/ BuildPublishIndex
    \/ BuildPublishCorpus
    \/ \E q \in Queries, s \in ConcurrentSubjects, k \in TopKs : SearchBegin(q, s, k)
    \/ SearchGetScores
    \/ SearchFormat
    \/ SearchReturn

SpecConcurrent == Init /\ [][NextConcurrent]_vars

\* C4: a bm25_search that interleaves with build_bm25_index on its subject
\* works on an index and a corpus list that belong together: every corpus
\* list it reads is the one its index was built from, and it does not fail
\* on a corpus list that is missing or shorter than the index.
C4_IndexAndCorpusPaired ==
    /\ "raised" \notin DOMAIN ret
    /\ pc.searcher = "format" =>
           \A n \in DOMAIN locals.searcher.corpora :
               locals.searcher.index =
                   BM25Okapi([i \in DOMAIN locals.searcher.corpora[n] |->
                                 Tokenize(locals.searcher.corpora[n][i].text)])

\* ------------------------------------------------- process_element_chunks
\* len(w) of a word: "w49" and "w50" stand for words of 49 and 50 characters
WordLen(w) == CASE w = "w49" -> 49 [] w = "w50" -> 50 [] OTHER -> 1

RECURSIVE StrippedLen(_)
\* len(chunk_text.strip()): the words and the single spaces between them
StrippedLen(text) ==
    IF text = <<>> THEN 0
    ELSE IF Len(text) = 1 THEN WordLen(text[1])
    ELSE StrippedLen(SubSeq(text, 1, Len(text) - 1)) + 1 + WordLen(text[Len(text)])

\* the length under which process_element_chunks drops a piece
MIN_CHUNK_CHARS == 50

RECURSIVE ChunkLoopKeepAll(_, _, _, _)
\* the loop without its length test
ChunkLoopKeepAll(chunks, n, pdf_file, subject) ==
    IF n = 0 THEN <<>>
    ELSE Append(ChunkLoopKeepAll(chunks, n - 1, pdf_file, subject),
                Chunk(chunks[n], subject, pdf_file, n - 1))

RECURSIVE ChunkLoop(_, _, _, _)
\* the loop over enumerate(chunks), after its first n iterations; the n-th
\* iteration has idx = n - 1
ChunkLoop(chunks, n, pdf_file, subject) ==
    IF n = 0 THEN <<>>
    ELSE LET doc_chunks == ChunkLoop(chunks, n - 1, pdf_file, subject)
         IN IF StrippedLen(chunks[n]) < MIN_CHUNK_CHARS
            THEN doc_chunks
            ELSE Append(doc_chunks, Chunk(chunks[n], subject, pdf_file, n - 1))

\* chunks is what self.chunker.split_text(text) returned
process_element_chunks(chunks, pdf_file, subject) ==
    ChunkLoop(chunks, Len(chunks), pdf_file, subject)

\* the pieces a split can yield: below, just below, just above and at the
\* minimum length
PieceTexts == {<<"a">>, <<"w49">>, <<"w49", "a">>, <<"w50">>}

PdfFiles == {"book1.pdf", "book2.pdf"}

InitChunks ==
    /\ bm25_indices = <<>>
    /\ corpus_docs = <<>>
    /\ collection = NewCollection(FALSE)
    /\ call \in {[subject |-> s, op |-> "process_element_chunks",
                   chunks |-> c, pdf_file |-> f] :
                    c \in SeqsUpTo(PieceTexts, MaxLen), f \in PdfFiles, s \in Subjects}
    /\ ret = Pending
    /\ pc = Idle
    /\ locals = NoLocals
    /\ InitApp

ProcessElementChunks ==
    /\ call.op = "process_element_chunks"
    /\ ~ret.returned
    /\ ret' = Returned(process_element_chunks(call.chunks, call.pdf_file, call.subject))
    /\ UNCHANGED <<bm25_indices, corpus_docs, collection, call, pc, locals>>
    /\ UNCHANGED appVars

NextChunks == ProcessElementChunks

SpecChunks == InitChunks /\ [][NextChunks]_vars

\* C3: the chunk_id values of the records process_element_chunks emits are
\* 0, 1, ..., n-1 in emission order, also when pieces are discarded for
\* being shorter than the minimum length.
C3_ChunkIdsDense ==
    (call.op = "process_element_chunks" /\ ret.returned) =>
        \A i \in DOMAIN ret.value : ret.value[i].metadata.chunk_id = i - 1

\* ------------------------------------------------ paragraph reconstruction
\* A line is the sequence of its words (line.strip() split at white space);
\* the blank line is <<>>.  Arabic words are written in Latin transliteration:
\* "al-fasl" (chapter), "al-dars" (lesson), "al-awwal" (first), "al-tasi"
\* (ninth), "al-ashir" (tenth), "ashar" (the "-teen" of eleven to nineteen).

\* words that begin with a digit (\d+ matches at their start)
DigitWords == {"3", "12"}

\* ^(Chapter|Unit|Lesson|Lecture)\s+\d+ under re.IGNORECASE
MatchesEnglishMarker(line) ==
    /\ Len(line) >= 2
    /\ Lower(line[1]) \in {"chapter", "unit", "lesson", "lecture"}
    /\ line[2] \in DigitWords

\* ^Section\s+\d+ under re.IGNORECASE
MatchesSection(line) ==
    /\ Len(line) >= 2
    /\ Lower(line[1]) = "section"
    /\ line[2] \in DigitWords

\* the five Arabic markers of the third pattern
ArabicMarkers == {"al-bab", "al-fasl", "al-dars", "al-wahda", "al-muhadara"}

\* the words that begin with an alternative of the third pattern's second
\* group: the ordinals first to ninth, and "ashar"
ArabicOrdinalsOfPattern ==
    {"al-awwal", "al-thani", "al-thalith", "al-rabi", "al-khamis", "al-sadis",
     "al-sabi", "al-thamin", "al-tasi", "ashar"}

\* ^(marker)\s+(ordinal|\d+)
MatchesArabicMarker(line) ==
    /\ Len(line) >= 2
    /\ line[1] \in ArabicMarkers
    /\ line[2] \in ArabicOrdinalsOfPattern \cup DigitWords

\* ^\d+\s*-\s* : numbered sections like "1 - Introduction"
MatchesNumberedPrefix(line) ==
    /\ Len(line) >= 2
    /\ line[1] \in DigitWords
    /\ line[2] = "-"

\* any(re.search(sep, line, re.IGNORECASE) for sep in self.separators)
is_header(line) ==
    \/ MatchesEnglishMarker(line)
    \/ MatchesSection(line)
    \/ MatchesArabicMarker(line)
    \/ MatchesNumberedPrefix(line)

\* line.endswith(('.', ':', '!', '?', Arabic question mark))
EndsSentence(line) == line[Len(line)] \in {"end.", "so:"}

RECURSIVE JoinWords(_)
\* " ".join(current_para): the words of the buffered lines in order
JoinWords(paras) ==
    IF paras = <<>> THEN <<>> ELSE paras[1] \o JoinWords(Tail(paras))

\* An entry of `reconstructed`: its words, whether it was appended with the
\* forced "\n\n" padding, and (for the properties only) the numbers of the
\* input lines it was made of.
ParaEntry(buffer, nums) == [words |-> JoinWords(buffer), padded |-> FALSE, from |-> nums]
HeaderEntry(line, num) == [words |-> line, padded |-> TRUE, from |-> <<num>>]

\* reconstructed.append(" ".join(current_para)); current_para = []
Flush(st) ==
    [nums |-> <<>>,
     reconstructed |-> Append(st.reconstructed, ParaEntry(st.current_para, st.nums)),
     current_para |-> <<>>]

FlushIfPending(st) == IF st.current_para # <<>> THEN Flush(st) ELSE st

\* one iteration of the loop over lines
ReconstructStep(st, line, num) ==
    IF line = <<>> THEN FlushIfPending(st)
    ELSE IF is_header(line)
    THEN [FlushIfPending(st) EXCEPT
              !.reconstructed = Append(@, HeaderEntry(line, num))]
    ELSE LET st1 == [st EXCEPT !.current_para = Append(@, line),
                               !.nums = Append(@, num)]
         IN IF EndsSentence(line) THEN Flush(st1) ELSE st1

RECURSIVE ReconstructLoop(_, _)
ReconstructLoop(lines, n) ==
    IF n = 0 THEN [nums |-> <<>>, reconstructed |-> <<>>, current_para |-> <<>>]
    ELSE ReconstructStep(ReconstructLoop(lines, n - 1), lines[n], n)

\* the list `reconstructed` that _reconstruct_paragraphs joins with "\n\n"
reconstruct_paragraphs(lines) ==
    FlushIfPending(ReconstructLoop(lines, Len(lines))).reconstructed

\* the lines the model draws texts from
ParaLines ==
    {<<>>, <<"Chapter", "3">>, <<"section", "12", "more">>, <<"Chapter", "one">>,
     <<"al-fasl", "al-awwal">>, <<"al-dars", "3">>, <<"al-fasl", "al-ashir">>,
     <<"3", "-", "intro">>, <<"plain", "words">>, <<"end.">>}

InitParagraphs ==
    /\ bm25_indices = <<>>
    /\ corpus_docs = <<>>
    /\ collection = NewCollection(FALSE)
    /\ call \in {[op |-> "_reconstruct_paragraphs", lines |-> l] :
                    l \in SeqsUpTo(ParaLines, MaxLen)}
    /\ ret = Pending
    /\ pc = Idle
    /\ locals = NoLocals
    /\ InitApp

ReconstructParagraphs ==
    /\ call.op = "_reconstruct_paragraphs"
    /\ ~ret.returned
    /\ ret' = Returned(reconstruct_paragraphs(call.lines))
    /\ UNCHANGED <<bm25_indices, corpus_docs, collection, call, pc, locals>>
    /\ UNCHANGED appVars

NextParagraphs == ReconstructParagraphs

SpecParagraphs == InitParagraphs /\ [][NextParagraphs]_vars

\* the Arabic ordinal words from "first" to "tenth"
ArabicOrdinalsFirstToTenth ==
    {"al-awwal", "al-thani", "al-thalith", "al-rabi", "al-khamis", "al-sadis",
     "al-sabi", "al-thamin", "al-tasi", "al-ashir"}

\* a structural header in the sense of C10
StructuralHeader(line) ==
    /\ Len(line) >= 2
    /\ \/ /\ Lower(line[1]) \in {"chapter", "unit", "lesson", "lecture", "section"}
          /\ line[2] \in DigitWords
       \/ /\ line[1] \in ArabicMarkers
          /\ line[2] \in DigitWords \cup ArabicOrdinalsFirstToTenth

\* C10: every line that begins with a structural header (an English marker
\* followed by a numeral, or an Arabic marker followed by a numeral or by an
\* ordinal word from "first" to "tenth") is emitted as a paragraph of its
\* own, merged with no line before or after it.
C10_HeaderIsolated ==
    (call.op = "_reconstruct_paragraphs" /\ ret.returned) =>
        \A n \in DOMAIN call.lines :
            StructuralHeader(call.lines[n]) =>
                \E e \in DOMAIN ret.value :
                    /\ ret.value[e].from = <<n>>
                    /\ ret.value[e].words = call.lines[n]

\* ---------------------------------------------------------- ingest_data.py
\* A PDF file of a subject directory: its name, whether process_pdf raises
\* an exception on it, and the pieces the chunker splits its cleaned text
\* into when it does not.
Pdf(filename, pieces) == [filename |-> filename, pieces |-> pieces, raises |-> FALSE]
BrokenPdf(filename) == [filename |-> filename, pieces |-> <<>>, raises |-> TRUE]

\* the files a subject directory is filled from
PdfLibrary ==
    {Pdf("book1.pdf", <<<<"w50">>, <<"a">>, <<"w49", "a">>>>),
     Pdf("book2.pdf", <<<<"w49">>, <<"w50">>>>),
     Pdf("notes.pdf", <<<<"a">>>>),
     BrokenPdf("scan.pdf")}

\* a subject directory with its *.pdf files in the order glob yields them,
\* and a subject directory that does not exist
Directory(files) == [files |-> files, exists |-> TRUE]
MissingDirectory == [files |-> <<>>, exists |-> FALSE]

\* most PDF files in a subject directory
MaxPdfs == 2

\* the states of a subject directory: missing, or up to MaxPdfs files of
\* different names
Directories ==
    {MissingDirectory} \cup
    {Directory(f) : f \in {g \in SeqsUpTo(PdfLibrary, MaxPdfs) :
                              \A i, j \in DOMAIN g : i # j => g[i] # g[j]}}

\* setup_data_directories(): subject_dir.mkdir(exist_ok=True)
setup_data_directories(dirs) ==
    [s \in DOMAIN dirs |-> IF dirs[s].exists THEN dirs[s] ELSE Directory(<<>>)]

RECURSIVE PdfLoopAborting(_, _, _)
\* the loop of process_subject_pdfs without its try: an exception ends it
PdfLoopAborting(files, n, subject) ==
    IF n = 0 THEN <<>>
    ELSE IF \E i \in 1..n : files[i].raises
         THEN <<>>
         ELSE PdfLoopAborting(files, n - 1, subject)
              \o process_element_chunks(files[n].pieces, files[n].filename, subject)

RECURSIVE PdfLoop(_, _, _)
\* the loop of process_subject_pdfs over the first n files: an exception of
\* process_pdf is caught and the file adds nothing to all_chunks
PdfLoop(files, n, subject) ==
    IF n = 0 THEN <<>>
    ELSE LET all_chunks == PdfLoop(files, n - 1, subject)
         IN IF files[n].raises
            THEN all_chunks
            ELSE all_chunks
                 \o process_element_chunks(files[n].pieces, files[n].filename, subject)

\* DocumentProcessor.process_subject_pdfs(subject)
process_subject_pdfs(dirs, subject) ==
    IF ~dirs[subject].exists
    THEN <<>>
    ELSE PdfLoop(dirs[subject].files, Len(dirs[subject].files), subject)

\* DocumentProcessor.process_all_subjects()
process_all_subjects(dirs) ==
    [subject \in Subjects |-> process_subject_pdfs(dirs, subject)]

\* the order of config.SUBJECTS, which the dict all_subject_chunks keeps
SubjectOrder == <<"math", "physics">>

RECURSIVE ConcatChunks(_, _)
\* all_chunks of ingest_data: the chunks of the first n subjects
ConcatChunks(all_subject_chunks, n) ==
    IF n = 0 THEN <<>>
    ELSE ConcatChunks(all_subject_chunks, n - 1) \o all_subject_chunks[SubjectOrder[n]]

RECURSIVE BuildAll(_, _, _)
\* the loop of ingest_data that builds the index of every subject that has
\* chunks; state is [bm25_indices, corpus_docs] of the new retriever
BuildAll(state, all_subject_chunks, n) ==
    IF n = 0 THEN state
    ELSE LET before == BuildAll(state, all_subject_chunks, n - 1)
             subject == SubjectOrder[n]
             chunks == all_subject_chunks[subject]
         IN IF chunks = <<>>
            THEN before
            ELSE [bm25_indices |->
                      SetItem(before.bm25_indices, subject,
                              BM25Okapi([i \in DOMAIN chunks |-> Tokenize(chunks[i].text)])),
                  corpus_docs |-> SetItem(before.corpus_docs, subject, chunks)]

\* most runs of ingest_data.py in a behaviour
MaxRuns == 2

\* the data directory is given; run 1 of ingest_data.py starts on an empty
\* store
InitIngest ==
    /\ bm25_indices = <<>>
    /\ corpus_docs = <<>>
    /\ collection = NewCollection(FALSE)
    /\ call = [op |-> "ingest_data"]
    /\ ret = Pending
    /\ pc = "start"
    /\ locals = [all_subject_chunks |-> <<>>, run |-> 1, reset |-> FALSE]
    /\ data_dir \in [Subjects -> Directories]
    /\ memory = <<>>
    /\ session = [current_subject |-> None, current_mode |-> None]
    /\ exit_status = <<>>

\* setup_data_directories(), process_all_subjects() and sys.exit(1) when no
\* chunk was made
IngestProcess ==
    /\ pc = "start"
    /\ data_dir' = setup_data_directories(data_dir)
    /\ LET all_subject_chunks == process_all_subjects(data_dir')
       IN /\ locals' = [locals EXCEPT !.all_subject_chunks = all_subject_chunks]
          /\ IF \A s \in Subjects : all_subject_chunks[s] = <<>>
             THEN pc' = "exited" /\ exit_status' = <<1>>
             ELSE pc' = "stats" /\ UNCHANGED exit_status
    /\ UNCHANGED <<bm25_indices, corpus_docs, collection, call, ret, memory, session>>

\* the question "Reset? (y/n)" when the collection holds documents, and
\* reset_collection() on the answer y
IngestStats(response) ==
    /\ pc = "stats"
    /\ IF CollectionCount(collection) > 0 /\ response = "y"
       THEN /\ collection' = NewCollection(TRUE)
            /\ locals' = [locals EXCEPT !.reset = TRUE]
       ELSE UNCHANGED <<collection, locals>>
    /\ pc' = "add"
    /\ UNCHANGED <<bm25_indices, corpus_docs, call, ret, data_dir, memory, session,
                   exit_status>>

\* vector_store.add_documents(all_chunks)
IngestAdd ==
    /\ pc = "add"
    /\ LET all_chunks == ConcatChunks(locals.all_subject_chunks, Len(SubjectOrder))
       IN collection' = [collection EXCEPT !.items = AddBatches(@, all_chunks, 1)]
    /\ pc' = "build"
    /\ UNCHANGED <<bm25_indices, corpus_docs, call, ret, locals, data_dir, memory,
                   session, exit_status>>

\* HybridRetriever(vector_store), build_bm25_index for every subject with
\* chunks, and the end of the script
IngestBuild ==
    /\ pc = "build"
    /\ LET built == BuildAll([bm25_indices |-> <<>>, corpus_docs |-> <<>>],
                             locals.all_subject_chunks, Len(SubjectOrder))
       IN /\ bm25_indices' = built.bm25_indices
          /\ corpus_docs' = built.corpus_docs
    /\ pc' = "exited"
    /\ exit_status' = <<0>>
    /\ UNCHANGED <<collection, call, ret, locals, data_dir, memory, session>>

\* KeyboardInterrupt before a step of ingest_data: sys.exit(1)
IngestInterrupt ==
    /\ pc \in {"start", "stats", "add", "build"}
    /\ pc' = "exited"
    /\ exit_status' = <<1>>
    /\ UNCHANGED <<bm25_indices, corpus_docs, collection, call, ret, locals, data_dir,
                   memory, session>>

\* ingest_data.py is run again on the same data directory: a new process,
\* the persistent collection as the last run left it
IngestAgain ==
    /\ pc = "exited"
    /\ locals.run < MaxRuns
    /\ pc' = "start"
    /\ locals' = [all_subject_chunks |-> <<>>, run |-> locals.run + 1, reset |-> FALSE]
    /\ bm25_indices' = <<>>
    /\ corpus_docs' = <<>>
    /\ exit_status' = <<>>
    /\ UNCHANGED <<collection, call, ret, data_dir, memory, session>>

NextIngest ==
    \/ IngestProcess
    \/ \E response \in {"y", "n"} : IngestStats(response)
    \/ IngestAdd
    \/ IngestBuild
    \/ IngestInterrupt
    \/ IngestAgain

SpecIngest == InitIngest /\ [][NextIngest]_vars

\* ------------------------------------------------------ claims on ingestion
\* process_all_subjects has returned in this run
Processed == pc \in {"stats", "add", "build"} \/ (pc = "exited" /\ exit_status = <<0>>)

\* the chunks the data directory yields, in the order they are added
AllChunks == ConcatChunks(process_all_subjects(data_dir), Len(SubjectOrder))

\* C11: no chunk whose text has fewer than 50 characters is emitted by
\* process_element_chunks, and none is held by the vector store or by the
\* corpus of a lexical index during ingestion.
C11_NoShortChunkIndexed ==
    /\ \A s \in DOMAIN locals.all_subject_chunks :
           \A i \in DOMAIN locals.all_subject_chunks[s] :
               StrippedLen(locals.all_subject_chunks[s][i].text) >= MIN_CHUNK_CHARS
    /\ \A id \in DOMAIN collection.items :
           StrippedLen(collection.items[id].document) >= MIN_CHUNK_CHARS
    /\ \A s \in DOMAIN corpus_docs :
           \A i \in DOMAIN corpus_docs[s] :
               StrippedLen(corpus_docs[s][i].text) >= MIN_CHUNK_CHARS

\* an ingestion has ended normally on a directory where a processed file
\* has a piece below the minimum next to pieces that were indexed
C11_Witness ==
    /\ pc = "exited"
    /\ exit_status = <<0>>
    /\ CollectionCount(collection) > 0
    /\ \E s \in DOMAIN corpus_docs :
           \E i \in DOMAIN data_dir[s].files :
               /\ ~data_dir[s].files[i].raises
               /\ \E j \in DOMAIN data_dir[s].files[i].pieces :
                      StrippedLen(data_dir[s].files[i].pieces[j]) < MIN_CHUNK_CHARS

\* the chunks of one file among the chunks of a subject
FileChunks(chunks, filename) ==
    SelectSeq(chunks, LAMBDA c : c.metadata.filename = filename)

\* C15: a PDF whose processing raises contributes no chunk, every other
\* PDF of the subject and of the other subjects contributes the chunks
\* process_element_chunks makes of it, and process_all_subjects has an
\* entry for every configured subject.
C15_FailingPdfSkipped ==
    Processed =>
        /\ DOMAIN locals.all_subject_chunks = Subjects
        /\ \A s \in Subjects :
               \A i \in DOMAIN data_dir[s].files :
                   LET f == data_dir[s].files[i]
                   IN FileChunks(locals.all_subject_chunks[s], f.filename) =
                          IF f.raises
                          THEN <<>>
                          ELSE process_element_chunks(f.pieces, f.filename, s)

\* a subject whose first PDF raises and whose second PDF yields chunks,
\* next to another subject with chunks
C15_Witness ==
    /\ Processed
    /\ \E s, o \in Subjects :
           /\ s # o
           /\ Len(data_dir[s].files) = 2
           /\ data_dir[s].files[1].raises
           /\ locals.all_subject_chunks[s] # <<>>
           /\ locals.all_subject_chunks[o] # <<>>

\* C16: add_documents on a collection that holds the documents of an
\* earlier ingestion of the same directory, not reset since, leaves the
\* collection as it is: the derived keys are the held ones, none is stored
\* a second time and the count stays.
C16_ReingestNoDuplicates ==
    [][(pc = "add" /\ pc' = "build" /\ CollectionCount(collection) > 0)
          => /\ {DocId(AllChunks[i]) : i \in DOMAIN AllChunks} = DOMAIN collection.items
             /\ collection' = collection
             /\ CollectionCount(collection') = Len(AllChunks)]_vars

\* the second run has added the documents to the collection the first run
\* filled, without a reset
C16_Witness ==
    /\ pc = "build"
    /\ locals.run = 2
    /\ ~locals.reset
    /\ CollectionCount(collection) > 1
    /\ CollectionCount(collection) = Len(AllChunks)

\* ------------------------------------------------------------------ main.py
\* config.MAX_MEMORY_MESSAGES
MAX_MEMORY_MESSAGES == 3

\* the modes select_mode offers
Modes == {"ask", "quiz", "explain"}

\* main.py does "from src.config import *", which binds SUBJECTS,
\* TOP_K_RETRIEVAL, ... but no name config: every expression config.X of
\* main.py raises this error when it is evaluated
NameError == "NameError"

\* ConversationMemory.add_interaction on deque(maxlen=max_messages): the
\* append to a full deque drops the item at its left end
add_interaction(messages, user_message, assistant_message) ==
    LET appended == Append(messages, [user |-> user_message,
                                      assistant |-> assistant_message])
    IN  IF Len(appended) > MAX_MEMORY_MESSAGES THEN Tail(appended) ELSE appended

\* the text the model streams when the call to Ollama succeeds
GeneratedText == "answer"

\* what generate_response returns from its except branch
FailureMessage == "Sorry, an error occurred generating the response."

\* OllamaClient.generate_response: outcome is whether client.chat raised
generate_response(outcome) ==
    IF outcome = "failed" THEN FailureMessage ELSE GeneratedText

\* most calls and commands made on one system
MaxTurns == 5

\* the collection main.py finds: ingest_data.py has stored three chunks of
\* the first subject, two of them with the same text
ChatCollection ==
    [NewCollection(FALSE) EXCEPT
        !.items = AddBatches(<<>>, <<Chunk(<<"a">>, "math", "book1.pdf", 0),
                                     Chunk(<<"a">>, "math", "book1.pdf", 1),
                                     Chunk(<<"B", "c">>, "math", "book1.pdf", 2)>>, 1)]

\* what the session has gone through: the number of calls and commands, the
\* last command, the interactions added since the memory was last cleared,
\* and whether Ollama answers
ChatLocals(turn, command, since_clear, ollama) ==
    [turn |-> turn, command |-> command, since_clear |-> since_clear, ollama |-> ollama]

\* the process python main.py before main() runs (pc = "main"), or a
\* system a caller has constructed with ThanaweayaRAGSystem() (pc =
\* "constructed"): a retriever without any lexical index, an empty memory,
\* no subject and no mode
InitChat ==
    /\ bm25_indices = <<>>
    /\ corpus_docs = <<>>
    /\ collection = ChatCollection
    /\ pc \in {"main", "constructed"}
    /\ call = [op |-> pc]
    /\ ret = Pending
    /\ locals = ChatLocals(0, None, <<>>, "up")
    /\ data_dir = <<>>
    /\ memory = <<>>
    /\ session = [current_subject |-> None, current_mode |-> None]
    /\ exit_status = <<>>

\* main(): config.CHROMA_DIR raises NameError in its first statement, no
\* handler is around it and the process ends with status 1
Main ==
    /\ pc = "main"
    /\ pc' = "exited"
    /\ ret' = Raised(NameError)
    /\ exit_status' = <<1>>
    /\ locals' = [locals EXCEPT !.turn = @ + 1, !.command = "main"]
    /\ UNCHANGED <<bm25_indices, corpus_docs, collection, call, data_dir, memory,
                   session>>

\* system.memory.add_interaction(user_message, assistant_message), called
\* on the memory of the system
MemoryAdd(user_message, assistant_message) ==
    /\ pc = "constructed"
    /\ locals.turn < MaxTurns
    /\ memory' = add_interaction(memory, user_message, assistant_message)
    /\ call' = [op |-> "add_interaction"]
    /\ ret' = Pending
    /\ locals' = [locals EXCEPT
                     !.turn = @ + 1, !.command = "add_interaction",
                     !.since_clear = Append(@, [user |-> user_message,
                                                assistant |-> assistant_message])]
    /\ UNCHANGED <<bm25_indices, corpus_docs, collection, pc, data_dir, session,
                   exit_status>>

\* system.memory.clear()
MemoryClear ==
    /\ pc = "constructed"
    /\ locals.turn < MaxTurns
    /\ memory' = <<>>
    /\ call' = [op |-> "clear"]
    /\ ret' = Pending
    /\ locals' = [locals EXCEPT !.turn = @ + 1, !.command = "memory.clear",
                                !.since_clear = <<>>]
    /\ UNCHANGED <<bm25_indices, corpus_docs, collection, pc, data_dir, session,
                   exit_status>>

\* system.llm_client.generate_response(...), outcome being whether the
\* call to Ollama raised
GenerateResponse(outcome) ==
    /\ pc = "constructed"
    /\ locals.turn < MaxTurns
    /\ call' = [op |-> "generate_response"]
    /\ ret' = Returned(generate_response(outcome))
    /\ locals' = [locals EXCEPT !.turn = @ + 1, !.command = "generate_response",
                                !.ollama = IF outcome = "failed" THEN "down" ELSE "up"]
    /\ UNCHANGED <<bm25_indices, corpus_docs, collection, pc, data_dir, memory,
                   session, exit_status>>

\* system.run(): select_subject() raises NameError at config.SUBJECTS
\* before it reads any input, run() catches it with "except Exception" and
\* calls sys.exit(1)
ChatStart ==
    /\ pc = "constructed"
    /\ pc' = "exited"
    /\ call' = [op |-> "run"]
    /\ ret' = Pending
    /\ exit_status' = <<1>>
    /\ locals' = [locals EXCEPT !.turn = @ + 1, !.command = "start"]
    /\ UNCHANGED <<bm25_indices, corpus_docs, collection, data_dir, memory, session>>

\* system.chat_loop() on a system whose caller has set current_subject and
\* current_mode (select_subject cannot return them): the loop waits for
\* input
EnterChatLoop(subject, mode) ==
    /\ pc = "constructed"
    /\ pc' = "chat"
    /\ call' = [op |-> "chat_loop"]
    /\ ret' = Pending
    /\ session' = [current_subject |-> subject, current_mode |-> mode]
    /\ locals' = [locals EXCEPT !.turn = @ + 1, !.command = "chat_loop"]
    /\ UNCHANGED <<bm25_indices, corpus_docs, collection, data_dir, memory,
                   exit_status>>

\* the command quit: sys.exit(0)
ChatQuit ==
    /\ pc = "chat"
    /\ pc' = "exited"
    /\ exit_status' = <<0>>
    /\ locals' = [locals EXCEPT !.turn = @ + 1, !.command = "quit"]
    /\ UNCHANGED <<bm25_indices, corpus_docs, collection, call, ret, data_dir, memory,
                   session>>

\* the command clear
ChatClear ==
    /\ pc = "chat"
    /\ locals.turn < MaxTurns
    /\ memory' = <<>>
    /\ locals' = [locals EXCEPT !.turn = @ + 1, !.command = "clear",
                                !.since_clear = <<>>]
    /\ UNCHANGED <<bm25_indices, corpus_docs, collection, call, ret, pc, data_dir,
                   session, exit_status>>

\* the command change: select_subject() raises NameError before it reads
\* the choice; nothing is assigned, memory.clear() is not reached, and the
\* error leaves chat_loop
ChatChange ==
    /\ pc = "chat"
    /\ pc' = "raised"
    /\ ret' = Raised(NameError)
    /\ locals' = [locals EXCEPT !.turn = @ + 1, !.command = "change"]
    /\ UNCHANGED <<bm25_indices, corpus_docs, collection, call, data_dir, memory,
                   session, exit_status>>

\* any other input: the argument top_k=config.TOP_K_RETRIEVAL of
\* retriever.search raises NameError before search is called; nothing is
\* retrieved, generated or added to the memory, and the error leaves
\* chat_loop, whether Ollama would have answered or not
ChatQuery(user_input, ollama) ==
    /\ pc = "chat"
    /\ pc' = "raised"
    /\ ret' = Raised(NameError)
    /\ locals' = [locals EXCEPT !.turn = @ + 1, !.command = "query",
                                !.ollama = ollama]
    /\ UNCHANGED <<bm25_indices, corpus_docs, collection, call, data_dir, memory,
                   session, exit_status>>

\* KeyboardInterrupt: inside the try of run(), which it can only reach
\* before select_subject has raised, it is caught and answered with
\* sys.exit(0); in chat_loop called on its own it leaves the loop
ChatInterrupt ==
    /\ pc \in {"constructed", "chat"}
    /\ IF pc = "constructed"
       THEN /\ pc' = "exited"
            /\ call' = [op |-> "run"]
            /\ ret' = Pending
            /\ exit_status' = <<0>>
       ELSE /\ pc' = "raised"
            /\ ret' = Raised("KeyboardInterrupt")
            /\ UNCHANGED <<call, exit_status>>
    /\ locals' = [locals EXCEPT !.turn = @ + 1, !.command = "interrupt"]
    /\ UNCHANGED <<bm25_indices, corpus_docs, collection, data_dir, memory, session>>

NextChat ==
    \/ Main
    \/ \E user_message \in Queries, assistant_message \in {GeneratedText, FailureMessage} :
           MemoryAdd(user_message, assistant_message)
    \/ MemoryClear
    \/ \E outcome \in {"ok", "failed"} : GenerateResponse(outcome)
    \/ ChatStart
    \/ \E subject \in Subjects, mode \in Modes : EnterChatLoop(subject, mode)
    \/ ChatQuit
    \/ ChatClear
    \/ ChatChange
    \/ \E user_input \in Queries, ollama \in {"up", "down"} :
           ChatQuery(user_input, ollama)
    \/ ChatInterrupt

SpecChat == InitChat /\ [][NextChat]_vars

\* C12: a KeyboardInterrupt ends the process with a non-zero status, and
\* status 0 is the status of a quit command only.
C12_InterruptExitsNonZero ==
    /\ locals.command = "interrupt" => exit_status # <<0>>
    /\ exit_status = <<0>> => locals.command = "quit"

\* C17: a chat turn made while the generation collaborator fails goes on to
\* the next prompt and leaves current subject, current mode and the
\* conversation memory as they were before the turn.
C17_FailedTurnKeepsSession ==
    [][(locals'.turn # locals.turn /\ locals'.command = "query"
            /\ locals'.ollama = "down")
          => (pc' = "chat" /\ session' = session /\ memory' = memory)]_vars

\* the last n items of a sequence
LastN(seq, n) == SubSeq(seq, Len(seq) - Min(n, Len(seq)) + 1, Len(seq))

\* C20: the memory holds at most max_messages interactions, they are the
\* last ones added since the last clear in the order they were added, and
\* the commands clear and change leave the memory empty.
C20_MemoryBoundedFifo ==
    /\ Len(memory) <= MAX_MEMORY_MESSAGES
    /\ memory = LastN(locals.since_clear, MAX_MEMORY_MESSAGES)
    /\ locals.command \in {"clear", "change"} => memory = <<>>

\* ------------------------------------------- the record a fused text carries
\* C14: the record reciprocal_rank_fusion returns for a text carries the
\* metadata of the first occurrence of that text in the lexical list
\* followed by the semantic list, also when the text occurs more than once
\* in the lexical list.
C14_FirstOccurrenceRecord ==
    FusionReturned =>
        \A i \in DOMAIN ret.value :
            LET all == call.bm25_results \o call.semantic_results
                first == all[FirstSeen(ret.value[i].text, call.bm25_results,
                                       call.semantic_results)]
            IN ret.value[i].metadata = first.metadata

\* ------------------------------------------- search, one statement at a time
\* the state ingestion leaves behind for a list of chunks of the first
\* subject: the index and the corpus of the subject, and the collection
IngestedChunks(chunks) ==
    [subject \in Subjects |-> IF subject = SubjectOrder[1] THEN chunks ELSE <<>>]

\* where the two lookups and the fusion of one search stand
SearchLocals(lexical, semantic, fusion, bm25_results, semantic_results, hybrid_results) ==
    [bm25_results |-> bm25_results,
     semantic_results |-> semantic_results,
     hybrid_results |-> hybrid_results,
     lexical |-> lexical,
     semantic |-> semantic,
     fusion |-> fusion]

\* a call of search(query, subject, top_k) on an ingested state
InitSteps ==
    /\ \E chunks \in ChunkLists(SubjectOrder[1], MaxDocs) :
           LET built == BuildAll([bm25_indices |-> <<>>, corpus_docs |-> <<>>],
                                 IngestedChunks(chunks), Len(SubjectOrder))
           IN /\ bm25_indices = built.bm25_indices
              /\ corpus_docs = built.corpus_docs
              /\ collection = [NewCollection(FALSE) EXCEPT
                                  !.items = AddBatches(<<>>, chunks, 1)]
    /\ call \in {[subject |-> s, op |-> "search", top_k |-> k, query |-> q] :
                    s \in Subjects, k \in TopKs, q \in Queries}
    /\ ret = Pending
    /\ pc = "bm25_search"
    /\ locals = SearchLocals("idle", "idle", "idle", <<>>, <<>>, <<>>)
    /\ InitApp

\* self.bm25_search(query, subject, retrieve_k) is called
StepLexicalCall ==
    /\ pc = "bm25_search"
    /\ pc' = "bm25_results"
    /\ locals' = [locals EXCEPT !.lexical = "running"]
    /\ UNCHANGED <<bm25_indices, corpus_docs, collection, call, ret>>
    /\ UNCHANGED appVars

\* bm25_results = the value bm25_search returns
StepLexicalReturn ==
    /\ pc = "bm25_results"
    /\ pc' = "semantic_search"
    /\ locals' = [locals EXCEPT
                     !.bm25_results = bm25_search(bm25_indices, corpus_docs, call.query,
                                                  call.subject, RetrieveK(call.top_k)),
                     !.lexical = "returned"]
    /\ UNCHANGED <<bm25_indices, corpus_docs, collection, call, ret>>
    /\ UNCHANGED appVars

\* self.vector_store.semantic_search(query, subject, retrieve_k) is called:
\* the statement after the assignment of bm25_results
StepSemanticCall ==
    /\ pc = "semantic_search"
    /\ pc' = "semantic_results"
    /\ locals' = [locals EXCEPT !.semantic = "running"]
    /\ UNCHANGED <<bm25_indices, corpus_docs, collection, call, ret>>
    /\ UNCHANGED appVars

\* semantic_results = the value semantic_search returns
StepSemanticReturn(semantic_results) ==
    /\ pc = "semantic_results"
    /\ semantic_results \in
           SemanticResults(collection, call.subject, RetrieveK(call.top_k))
    /\ pc' = "reciprocal_rank_fusion"
    /\ locals' = [locals EXCEPT !.semantic_results = semantic_results,
                                !.semantic = "returned"]
    /\ UNCHANGED <<bm25_indices, corpus_docs, collection, call, ret>>
    /\ UNCHANGED appVars

\* hybrid_results = self.reciprocal_rank_fusion(bm25_results, semantic_results)
StepFuse ==
    /\ pc = "reciprocal_rank_fusion"
    /\ pc' = "return"
    /\ locals' = [locals EXCEPT
                     !.hybrid_results =
                         reciprocal_rank_fusion(locals.bm25_results,
                                                locals.semantic_results, RRF_K),
                     !.fusion = "returned"]
    /\ UNCHANGED <<bm25_indices, corpus_docs, collection, call, ret>>
    /\ UNCHANGED appVars

\* return hybrid_results[:top_k]
StepReturn ==
    /\ pc = "return"
    /\ pc' = "done"
    /\ ret' = Returned(Take(locals.hybrid_results, call.top_k))
    /\ UNCHANGED <<bm25_indices, corpus_docs, collection, call, locals>>
    /\ UNCHANGED appVars

NextSteps ==
    \/ StepLexicalCall
    \/ StepLexicalReturn
    \/ StepSemanticCall
    \/ \E semantic_results \in
              SemanticResults(collection, call.subject, RetrieveK(call.top_k)) :
           StepSemanticReturn(semantic_results)
    \/ StepFuse
    \/ StepReturn

SpecSteps == InitSteps /\ [][NextSteps]_vars

\* C13: the lexical lookup and the semantic search of one hybrid search are
\* issued without either waiting for the other to finish (when one of them
\* has returned the other has been issued), and the fusion starts only
\* when both have returned.
C13_LookupsConcurrent ==
    /\ locals.lexical = "returned" => locals.semantic # "idle"
    /\ locals.semantic = "returned" => locals.lexical # "idle"
    /\ locals.fusion # "idle" =>
           (locals.lexical = "returned" /\ locals.semantic = "returned")

\* --------------------------------------------- what the queries write where
\* The dicts a query touches are objects: a place names one, <<list, i>>
\* being the dict at position i (from 1) of a list the retriever or the
\* caller holds.

\* no copy: the object itself
SameObject(place) == place

\* dict.copy(): a new dict, at a place no list holds
CopyOf(place) == <<"copy", place>>

\* doc[field] = value for the dict doc at place, as seen from the list name
StoreField(list, name, place, field, value) ==
    IF place[1] = name
    THEN [list EXCEPT ![place[2]] =
             [f \in DOMAIN @ \cup {field} |-> IF f = field THEN value ELSE @[f]]]
    ELSE list

RECURSIVE CorpusAfterFormat(_, _, _, _)
\* corpus_docs[subject] after the first n iterations of the results loop of
\* bm25_search
CorpusAfterFormat(top_indices, n, scores, docs) ==
    IF n = 0 THEN docs
    ELSE LET before == CorpusAfterFormat(top_indices, n - 1, scores, docs)
             idx == top_indices[n]
         IN IF scores[idx] > 0
            THEN StoreField(before, "corpus_docs", CopyOf(<<"corpus_docs", idx>>),
                            "bm25_score", scores[idx])
            ELSE before

\* corpus_docs after bm25_search(query, subject, top_k)
CorporaAfterSearch(indices, corpora, query, subject, top_k) ==
    IF subject \notin DOMAIN indices THEN corpora
    ELSE LET bm25_scores == get_scores(indices[subject], Tokenize(query))
             top_indices == TopIndices(bm25_scores, top_k)
         IN SetItem(corpora, subject,
                    CorpusAfterFormat(top_indices, Len(top_indices), bm25_scores,
                                      corpora[subject]))

\* the place of doc_map[doc_text]: the last dict of that text in the
\* lexical list, or else the first one in the semantic list
DocMapPlace(doc_text, bm25_results, semantic_results) ==
    LET lex == {i \in DOMAIN bm25_results : bm25_results[i].text = doc_text}
        sem == {i \in DOMAIN semantic_results : semantic_results[i].text = doc_text}
    IN  IF lex # {}
        THEN <<"bm25_results", CHOOSE i \in lex : \A j \in lex : j <= i>>
        ELSE <<"semantic_results", CHOOSE i \in sem : \A j \in sem : i <= j>>

RECURSIVE InputsAfterFormat(_, _, _, _)
\* the two input lists after the first n iterations of the results loop of
\* reciprocal_rank_fusion
InputsAfterFormat(inputs, sorted_docs, n, scores) ==
    IF n = 0 THEN inputs
    ELSE LET before == InputsAfterFormat(inputs, sorted_docs, n - 1, scores)
             doc_text == sorted_docs[n]
             place == CopyOf(DocMapPlace(doc_text, inputs.bm25_results,
                                         inputs.semantic_results))
         IN [bm25_results |->
                 StoreField(before.bm25_results, "bm25_results", place,
                            "hybrid_score", scores[doc_text]),
             semantic_results |->
                 StoreField(before.semantic_results, "semantic_results", place,
                            "hybrid_score", scores[doc_text])]

\* the lists passed to reciprocal_rank_fusion, after the call
InputsAfterFusion(bm25_results, semantic_results, k) ==
    LET st1 == Bm25Loop(EmptyScoreMap, bm25_results, Len(bm25_results), k)
        st2 == SemanticLoop(st1, semantic_results, Len(semantic_results), k)
        sorted_docs == SortedByScore(st2.keys, st2.scores)
    IN InputsAfterFormat([bm25_results |-> bm25_results,
                          semantic_results |-> semantic_results],
                         sorted_docs, Len(sorted_docs), st2.scores)

\* most queries made of one built retriever
MaxQueries == 2

\* what the caller holds: the lists it got and passed on, and what was built
QueryLocals(bm25_results, semantic_results, passed, built, queries) ==
    [bm25_results |-> bm25_results,
     semantic_results |-> semantic_results,
     built |-> built,
     passed |-> passed,
     queries |-> queries]

\* a retriever with the index of the first subject built, and the store
\* holding the same chunks
InitQueries ==
    /\ \E chunks \in ChunkLists(SubjectOrder[1], MaxDocs) :
           LET built == BuildAll([bm25_indices |-> <<>>, corpus_docs |-> <<>>],
                                 IngestedChunks(chunks), Len(SubjectOrder))
           IN /\ bm25_indices = built.bm25_indices
              /\ corpus_docs = built.corpus_docs
              /\ collection = [NewCollection(FALSE) EXCEPT
                                  !.items = AddBatches(<<>>, chunks, 1)]
              /\ locals = QueryLocals(<<>>, <<>>,
                                      [bm25_results |-> <<>>, semantic_results |-> <<>>],
                                      built, 0)
    /\ call = [op |-> None]
    /\ ret = Pending
    /\ pc = Idle
    /\ InitApp

\* results = retriever.bm25_search(query, subject, top_k), the caller
\* keeping the list
QueryBm25(query, subject, top_k) ==
    /\ locals.queries < MaxQueries
    /\ call' = [subject |-> subject, op |-> "bm25_search", top_k |-> top_k,
                query |-> query]
    /\ ret' = Returned(bm25_search(bm25_indices, corpus_docs, query, subject, top_k))
    /\ corpus_docs' = CorporaAfterSearch(bm25_indices, corpus_docs, query, subject, top_k)
    /\ locals' = [locals EXCEPT !.bm25_results = ret'.value,
                                !.queries = @ + 1]
    /\ UNCHANGED <<bm25_indices, collection, pc>>
    /\ UNCHANGED appVars

\* retriever.reciprocal_rank_fusion(bm25_results, semantic_results) on the
\* list the last lexical query gave and a list the store answers with
QueryFusion(semantic_results) ==
    /\ call.op = "bm25_search"
    /\ semantic_results \in
           SemanticResults(collection, call.subject, RetrieveK(call.top_k))
    /\ call' = [op |-> "reciprocal_rank_fusion",
                k |-> RRF_K,
                bm25_results |-> locals.bm25_results,
                semantic_results |-> semantic_results]
    /\ ret' = Returned(reciprocal_rank_fusion(locals.bm25_results, semantic_results,
                                              RRF_K))
    /\ locals' = [locals EXCEPT
                     !.bm25_results =
                         InputsAfterFusion(locals.bm25_results, semantic_results,
                                           RRF_K).bm25_results,
                     !.semantic_results =
                         InputsAfterFusion(locals.bm25_results, semantic_results,
                                           RRF_K).semantic_results,
                     !.passed = [bm25_results |-> locals.bm25_results,
                                 semantic_results |-> semantic_results]]
    /\ UNCHANGED <<bm25_indices, corpus_docs, collection, pc>>
    /\ UNCHANGED appVars

NextQueries ==
    \/ \E q \in Queries, s \in Subjects, k \in TopKs : QueryBm25(q, s, k)
    \/ \E s \in Subjects, k \in TopKs :
           /\ call.op = "bm25_search"
           /\ call.subject = s
           /\ call.top_k = k
           /\ \E semantic_results \in SemanticResults(collection, s, RetrieveK(k)) :
                  QueryFusion(semantic_results)

SpecQueries == InitQueries /\ [][NextQueries]_vars

\* C18: queries leave the index and the corpus records as they were built
\* (no bm25_score or hybrid_score field on a corpus record), the fusion
\* leaves the lists it was passed as they were, and a query returns what
\* it returns on the index as built.
C18_QueriesArePureReads ==
    /\ bm25_indices = locals.built.bm25_indices
    /\ corpus_docs = locals.built.corpus_docs
    /\ \A s \in DOMAIN corpus_docs : \A i \in DOMAIN corpus_docs[s] :
           DOMAIN corpus_docs[s][i] \cap {"bm25_score", "hybrid_score"} = {}
    /\ call.op = "reciprocal_rank_fusion" =>
           /\ locals.bm25_results = locals.passed.bm25_results
           /\ locals.semantic_results = locals.passed.semantic_results
    /\ call.op = "bm25_search" =>
           ret.value = bm25_search(locals.built.bm25_indices, locals.built.corpus_docs,
                                   call.query, call.subject, call.top_k)

\* a second lexical query has returned documents, after a fusion of lists
\* with documents in both
C18_Witness ==
    /\ call.op = "bm25_search"
    /\ locals.queries = 2
    /\ ret.value # <<>>
    /\ locals.passed.bm25_results # <<>>
    /\ locals.passed.semantic_results # <<>>

\* ----------------------------------------------------------------- cleaners
\* A text is the sequence of its characters, a line a text without "\n".
NL == "\n"

\* the characters str.strip() and \s take for whitespace, "\n" aside
Blanks == {" ", "\t"}

\* the characters str.isdigit() and \d accept, among those of the model
Digits == {"0", "1", "2", "3", "4", "5", "6", "7", "8", "9"}

\* the em dash and the en dash, by name
LongDashes == {"em dash", "en dash"}

\* the operators MathPhysicsCleaner sets off with spaces, the multiplication
\* and the division sign by name
Operators == {"=", "+", "-", "times sign", "division sign"}

RECURSIVE LeadingCount(_, _)
\* how many characters at the start of s are in set
LeadingCount(s, set) ==
    IF s = <<>> \/ Head(s) \notin set THEN 0 ELSE 1 + LeadingCount(Tail(s), set)

\* line.strip()
Strip(line) ==
    LET l == LeadingCount(line, Blanks \cup {NL})
        r == LeadingCount(Reverse(line), Blanks \cup {NL})
    IN IF l = Len(line) THEN <<>> ELSE SubSeq(line, l + 1, Len(line) - r)

RECURSIVE SplitLines(_)
\* text.split('\n')
SplitLines(text) ==
    LET n == LeadingCount(text, Range(text) \ {NL})
    IN IF n = Len(text)
       THEN <<text>>
       ELSE <<SubSeq(text, 1, n)>> \o SplitLines(SubSeq(text, n + 2, Len(text)))

RECURSIVE JoinLines(_)
\* "\n".join(lines)
JoinLines(lines) ==
    IF lines = <<>> THEN <<>>
    ELSE IF Len(lines) = 1 THEN lines[1]
    ELSE lines[1] \o <<NL>> \o JoinLines(Tail(lines))

\* the tests of basic_clean on s = line.strip(), in their order
IsGarbage(s) ==
    \/ s = <<>>
    \/ (Range(s) \subseteq Digits /\ Len(s) < 4)
    \/ (Len(s) < 3 /\ s \notin {<<".">>, <<"!">>, <<"?">>})
    \/ LeadingCount(s, {"-", "_", "="}) >= 3
    \/ (Range(s) \subseteq LongDashes /\ Len(s) >= 3)
    \/ Range(s) \subseteq {"-", "=", "_"} \cup Blanks

\* the loop of basic_clean: the lines that are kept, unstripped
KeptLines(lines) == SelectSeq(lines, LAMBDA line : ~IsGarbage(Strip(line)))

\* BaseCleaner.basic_clean(text)
basic_clean(text) == JoinLines(KeptLines(SplitLines(text)))

\* how many lines a match of ^Fig\.?\s*\d+.*$ at the start of the first
\* line takes: 0 when there is none, more than 1 when \s* runs over line
\* ends
FigSpan(lines) ==
    LET text == JoinLines(lines)
        dot == IF Len(text) >= 4 /\ text[4] = "." THEN 1 ELSE 0
        rest == SubSeq(text, 4 + dot, Len(text))
        w == LeadingCount(rest, Blanks \cup {NL})
    IN IF Len(text) >= 3 /\ SubSeq(text, 1, 3) = <<"F", "i", "g">>
          /\ w < Len(rest) /\ rest[w + 1] \in Digits
       THEN 1 + Cardinality({i \in 1..w : rest[i] = NL})
       ELSE 0

RECURSIVE RemoveFigures(_)
\* re.sub(r'^Fig\.?\s*\d+.*$', '', text, flags=re.MULTILINE) on the lines
RemoveFigures(lines) ==
    IF lines = <<>> THEN <<>>
    ELSE IF FigSpan(lines) = 0
         THEN <<lines[1]>> \o RemoveFigures(Tail(lines))
         ELSE <<<<>>>> \o RemoveFigures(SubSeq(lines, FigSpan(lines) + 1, Len(lines)))

RECURSIVE PadOperators(_)
\* text.replace(op, f" {op} ") for the five operators
PadOperators(line) ==
    IF line = <<>> THEN <<>>
    ELSE IF Head(line) \in Operators
         THEN <<" ", Head(line), " ">> \o PadOperators(Tail(line))
         ELSE <<Head(line)>> \o PadOperators(Tail(line))

RECURSIVE CollapseBlanks(_)
\* re.sub(r'[ \t]+', ' ', text)
CollapseBlanks(line) ==
    IF line = <<>> THEN <<>>
    ELSE IF Head(line) \in Blanks
         THEN <<" ">> \o CollapseBlanks(SubSeq(line, LeadingCount(line, Blanks) + 1,
                                               Len(line)))
         ELSE <<Head(line)>> \o CollapseBlanks(Tail(line))

\* MathPhysicsCleaner.clean(text)
MathPhysicsClean(text) ==
    LET lines == RemoveFigures(SplitLines(basic_clean(text)))
    IN JoinLines([i \in DOMAIN lines |-> CollapseBlanks(PadOperators(lines[i]))])

\* get_cleaner(subject).clean(text) for the subjects of the model, which
\* both have the MathPhysicsCleaner
clean(text, subject) == MathPhysicsClean(text)

\* the lines the texts are made of: blank, page number, short, separators,
\* a figure caption in one and in two lines, and lines that stay
CleanLines ==
    {<<>>,
     <<" ">>,
     <<"1", "2">>,
     <<"x">>,
     <<"-", "-", "-">>,
     <<"-", " ", "=">>,
     <<"a", "b", "c">>,
     <<" ", "x", "=", "y", "7">>,
     <<"F", "i", "g", ".", " ", "1", " ", "x">>,
     <<"F", "i", "g", ".">>,
     <<"2", "x", "y">>}

\* the texts handed to a cleaner: 1 to MaxLen lines
CleanTexts == {JoinLines(lines) : lines \in SeqsUpTo(CleanLines, MaxLen) \ {<<>>}}

InitClean ==
    /\ bm25_indices = <<>>
    /\ corpus_docs = <<>>
    /\ collection = NewCollection(FALSE)
    /\ call \in {[subject |-> subject, text |-> text, op |-> "clean"] :
                    subject \in Subjects, text \in CleanTexts}
    /\ ret = Pending
    /\ pc = Idle
    /\ locals = NoLocals
    /\ InitApp

\* text = self.get_cleaner(subject).clean(text), as process_pdf calls it
Clean ==
    /\ call.op = "clean"
    /\ ~ret.returned
    /\ ret' = Returned(clean(call.text, call.subject))
    /\ UNCHANGED <<bm25_indices, corpus_docs, collection, call, pc, locals>>
    /\ UNCHANGED appVars

NextClean == Clean

SpecClean == InitClean /\ [][NextClean]_vars

\* C19: a cleaned text is a fixed point of its cleaner: the line rules of
\* basic_clean drop no line of clean(t), and clean(clean(t)) = clean(t).
C19_CleanIdempotent ==
    (call.op = "clean" /\ ret.returned) =>
        /\ basic_clean(ret.value) = ret.value
        /\ clean(ret.value, call.subject) = ret.value

\* ---------------------------------------------- the texts of a fused list
\* the distinct texts of the two lists passed to the fusion
InputTexts == Range(TextsOf(call.bm25_results)) \cup Range(TextsOf(call.semantic_results))

\* C21: the list reciprocal_rank_fusion returns holds every distinct text of
\* the two input lists exactly once and no other text; its length is the
\* number of distinct texts of the two lists.
C21_EachTextOnce ==
    FusionReturned =>
        /\ Range(TextsOf(ret.value)) = InputTexts
        /\ Len(ret.value) = Cardinality(InputTexts)
        /\ \A i, j \in DOMAIN ret.value :
               ret.value[i].text = ret.value[j].text => i = j

\* a fusion has returned two documents for lists in which one text is in
\* both lists and one text is twice in the lexical list
C21_Witness ==
    /\ FusionReturned
    /\ Len(ret.value) = 2
    /\ \E i, j \in DOMAIN call.bm25_results :
           i # j /\ call.bm25_results[i].text = call.bm25_results[j].text
    /\ \E i \in DOMAIN call.bm25_results, j \in DOMAIN call.semantic_results :
           call.bm25_results[i].text = call.semantic_results[j].text

\* -------------------------------------------- the lexical side of the chat
\* C22: the retriever of the chat program holds no lexical index in any
\* state, every chat query gets an empty lexical list, and the documents it
\* gets are the semantic candidates in their semantic order (each text once,
\* the first top_k of them).
C22_ChatRankingSemanticOnly ==
    /\ bm25_indices = <<>>
    /\ corpus_docs = <<>>
    /\ locals.command = "query" =>
           /\ call.op = "search"
           /\ call.bm25_results = <<>>
           /\ TextsOf(ret.value) =
                  TextsOf(Take(DedupByText(call.semantic_results, {}), call.top_k))

====
